---- MODULE Spec2Model ----
(***************************************************************************)
(* Model of kubernetes/nodecollection.go: the node directory               *)
(* (GetReadyNodes, NodeAddress), the endpoint masks, the connectivity      *)
(* prober (ensureNodeSource, testNodeConn, allowDirectConnect) and the     *)
(* per-cycle fetch orchestrator (downloadNodeData, directNodeFetch,        *)
(* proxyNodeFetch, retrieveNodeData).                                      *)
(*                                                                         *)
(* The Kubernetes API, the probe collaborator and the HTTP transport are   *)
(* the environment: every listing, probe and request draws its result      *)
(* nondeterministically.                                                   *)
(***************************************************************************)
EXTENDS Integers, Sequences, FiniteSets, TLC

\* ------------------------------------------------------------------ bounds
\* Largest number of nodes a listing returns.
MaxNodes == 2

\* --------------------------------------------------------------- constants
\* Endpoint enumeration (iota).
NodeStatsSummaryEndpoint == 0
NodeContainerEndpoint == 1
NodeCadvisorEndpoint == 2
Endpoints == {NodeStatsSummaryEndpoint, NodeContainerEndpoint, NodeCadvisorEndpoint}

\* Connection modes; unset is the zero value of the field before the prober ran.
unset == ""
direct == "direct"
proxy == "proxy"
unreachable == "unreachable"

\* Number of attempts of retry.RetryOnConflict with retry.DefaultBackoff.
RetrySteps == 4

\* Node condition types / statuses, address types, the Fargate label value.
NodeReady == "Ready"
NodeMemoryPressure == "MemoryPressure"
ConditionTrue == "True"
ConditionFalse == "False"
ConditionUnknown == "Unknown"
NodeInternalIP == "InternalIP"
NodeExternalIP == "ExternalIP"
fargate == "fargate"

\* The three texts downloadNodeData writes into failedNodeList.
ProviderIDMissing == "Provider ID for node does not exist"
DirectConnectFailed == "direct connect failed (will attempt proxy)"
ProxyConnectFailed == "proxy connect failed"

\* ------------------------------------------------------------ node inputs
\* Condition lists a node may report.
ConditionLists ==
  { <<>>,
    << [type |-> NodeReady, status |-> ConditionTrue] >>,
    << [type |-> NodeReady, status |-> ConditionFalse] >>,
    << [type |-> NodeReady, status |-> ConditionUnknown] >>,
    << [type |-> NodeMemoryPressure, status |-> ConditionFalse] >>,
    << [type |-> NodeMemoryPressure, status |-> ConditionFalse],
       [type |-> NodeReady, status |-> ConditionTrue] >>,
    << [type |-> NodeMemoryPressure, status |-> ConditionTrue],
       [type |-> NodeReady, status |-> ConditionFalse] >> }

\* Condition lists used in whole sessions: the status of the Ready condition
\* is read nowhere after the listing, so sessions keep one representative of
\* a listed node and one of a filtered node.
SessionConditionLists ==
  { <<>>, << [type |-> NodeReady, status |-> ConditionTrue] >> }

\* Address lists a node may report: with and without an internal IP.
AddressLists ==
  { << [type |-> NodeExternalIP, address |-> "54.0.0.1"] >>,
    << [type |-> NodeExternalIP, address |-> "54.0.0.1"],
       [type |-> NodeInternalIP, address |-> "10.0.0.1"] >> }

NodeName(i) == "node" \o ToString(i)

\* A node as the listing returns it: name, conditions, addresses, the
\* eks.amazonaws.com/compute-type label ("" when absent) and the provider ID.
NodeAt(i, conds) ==
  [ name : {NodeName(i)},
    conditions : conds,
    addresses : AddressLists,
    computeType : {"", fargate},
    providerID : {"", "aws:///" \o NodeName(i)} ]

\* All listings of exactly k nodes (node i of a listing is named node<i>).
RECURSIVE ListsOfLen(_, _)
ListsOfLen(k, conds) ==
  IF k = 0 THEN { <<>> }
  ELSE { Append(l, n) : l \in ListsOfLen(k - 1, conds), n \in NodeAt(k, conds) }

NodeLists(conds) == UNION { ListsOfLen(k, conds) : k \in 0..MaxNodes }

\* What clientSet.CoreV1().Nodes().List returns: the items, or an error that
\* is an API conflict or any other error.
ListResults(conds) ==
  [ err : {"nil"}, items : NodeLists(conds) ]
    \cup [ err : {"conflict", "other"}, items : { <<>> } ]

\* What util.TestHTTPConnection returns for one endpoint.
ProbeOutcomes == {"available", "unavailable", "error"}

\* ------------------------------------------------------------ pure helpers
\* getNodeCondition: index (1-based; 0 stands for Go's -1) of the first
\* condition of the given type.
RECURSIVE ScanConditions(_, _, _)
ScanConditions(conditions, conditionType, i) ==
  IF i > Len(conditions) THEN 0
  ELSE IF conditions[i].type = conditionType THEN i
  ELSE ScanConditions(conditions, conditionType, i + 1)

getNodeCondition(status, conditionType) == ScanConditions(status, conditionType, 1)

\* The loop of GetReadyNodes, lines 56-65.
RECURSIVE FilterReady(_, _)
FilterReady(items, i) ==
  IF i > Len(items) THEN <<>>
  ELSE LET n == items[i]
           c == getNodeCondition(n.conditions, NodeReady)
       IN IF c >= 1 /\ n.conditions[c].type = NodeReady
          THEN <<n>> \o FilterReady(items, i + 1)
          ELSE FilterReady(items, i + 1)

\* GetReadyNodes applied to one result of the node listing.
GetReadyNodes(allNodes) ==
  IF allNodes.err # "nil" THEN [ nodes |-> <<>>, err |-> allNodes.err ]
  ELSE LET readyNodes == FilterReady(allNodes.items, 1)
       IN IF Len(readyNodes) = 0
          THEN [ nodes |-> <<>>, err |-> "zero ready nodes" ]
          ELSE [ nodes |-> readyNodes, err |-> "nil" ]

\* NodeAddress: the first address of type InternalIP, or an error.
RECURSIVE ScanAddresses(_, _)
ScanAddresses(addresses, i) ==
  IF i > Len(addresses) THEN [ ip |-> "", err |-> "no internal IP" ]
  ELSE IF addresses[i].type = NodeInternalIP
       THEN [ ip |-> addresses[i].address, err |-> "nil" ]
  ELSE ScanAddresses(addresses, i + 1)

\* NodeAddress with the bug of falling back to the first address of any type.
NodeAddress_anyAddress(node) ==
  LET a == ScanAddresses(node.addresses, 1)
  IN IF a.err = "nil" \/ node.addresses = <<>> THEN a
     ELSE [ ip |-> node.addresses[1].address, err |-> "nil" ]

NodeAddress(node) == ScanAddresses(node.addresses, 1)

\* EndpointMask.SetAvailable / Available: the mask is the set of its keys.
SetAvailable(m, endpoint, available) ==
  IF available THEN m \cup {endpoint} ELSE m \ {endpoint}

Available(m, endpoint) == endpoint \in m

isFargateNode(n) == n.computeType = fargate

\* allowDirectConnect: the loop over the nodes, lines 439-444.
RECURSIVE AnyFargate(_, _)
AnyFargate(nodes, i) ==
  IF i > Len(nodes) THEN FALSE
  ELSE IF isFargateNode(nodes[i]) THEN TRUE
  ELSE AnyFargate(nodes, i + 1)

\* allowDirectConnect with the bug of looking at the first node only.
allowDirectConnect_firstNodeOnly(config, nodes) ==
  IF config.ForceKubeProxy THEN FALSE
  ELSE IF isFargateNode(nodes[1]) THEN FALSE
  ELSE TRUE

allowDirectConnect(config, nodes) ==
  IF config.ForceKubeProxy THEN FALSE
  ELSE IF AnyFargate(nodes, 1) THEN FALSE
  ELSE TRUE

\* One probe issued by testNodeConn (util.TestHTTPConnection).
Probe(via, endpoint, method) ==
  [ via |-> via, endpoint |-> endpoint, method |-> method ]

\* testNodeConn with the bug of probing Container whether or not
\* container-stats collection is configured.
testNodeConn_alwaysProbesContainer(config, via, mask, res) ==
  LET ns == res[NodeStatsSummaryEndpoint] = "available"
      cm == res[NodeCadvisorEndpoint] = "available"
      p1 == << Probe(via, NodeStatsSummaryEndpoint, "GET") >>
      p2 == Append(p1, Probe(via, NodeCadvisorEndpoint, "GET"))
      p3 == Append(p2, Probe(via, NodeContainerEndpoint, "POST"))
      m1 == SetAvailable(mask, NodeStatsSummaryEndpoint, ns)
      m2 == SetAvailable(m1, NodeCadvisorEndpoint, cm)
  IN IF res[NodeStatsSummaryEndpoint] = "error"
     THEN [ success |-> FALSE, err |-> "transport", mask |-> mask, probes |-> p1 ]
     ELSE IF res[NodeCadvisorEndpoint] = "error"
     THEN [ success |-> FALSE, err |-> "transport", mask |-> m1, probes |-> p2 ]
     ELSE IF res[NodeContainerEndpoint] = "error"
     THEN [ success |-> FALSE, err |-> "transport", mask |-> m2, probes |-> p3 ]
     ELSE LET cs == res[NodeContainerEndpoint] = "available"
          IN [ success |-> ns /\ (cm \/ cs), err |-> "nil",
               mask |-> SetAvailable(m2, NodeContainerEndpoint, cs),
               probes |-> p3 ]

\* testNodeConn with the bug of accepting StatsSummary alone.
testNodeConn_summaryAlone(config, via, mask, res) ==
  LET ns == res[NodeStatsSummaryEndpoint] = "available"
      cm == res[NodeCadvisorEndpoint] = "available"
      p1 == << Probe(via, NodeStatsSummaryEndpoint, "GET") >>
      p2 == Append(p1, Probe(via, NodeCadvisorEndpoint, "GET"))
      p3 == Append(p2, Probe(via, NodeContainerEndpoint, "POST"))
      m1 == SetAvailable(mask, NodeStatsSummaryEndpoint, ns)
      m2 == SetAvailable(m1, NodeCadvisorEndpoint, cm)
  IN IF res[NodeStatsSummaryEndpoint] = "error"
     THEN [ success |-> FALSE, err |-> "transport", mask |-> mask, probes |-> p1 ]
     ELSE IF res[NodeCadvisorEndpoint] = "error"
     THEN [ success |-> FALSE, err |-> "transport", mask |-> m1, probes |-> p2 ]
     ELSE IF config.RetrieveStatsContainer
     THEN IF res[NodeContainerEndpoint] = "error"
          THEN [ success |-> FALSE, err |-> "transport", mask |-> m2, probes |-> p3 ]
          ELSE LET cs == res[NodeContainerEndpoint] = "available"
               IN [ success |-> ns, err |-> "nil",
                    mask |-> SetAvailable(m2, NodeContainerEndpoint, cs),
                    probes |-> p3 ]
     ELSE [ success |-> ns, err |-> "nil", mask |-> m2, probes |-> p2 ]

\* testNodeConn: probes StatsSummary, CAdvisor and (when configured)
\* Container in this order, records each availability in the mask and stops
\* at the first transport error. res maps each endpoint to what its probe
\* returns. The mask is a Go map: what was written before an error stays.
testNodeConn(config, via, mask, res) ==
  LET ns == res[NodeStatsSummaryEndpoint] = "available"
      cm == res[NodeCadvisorEndpoint] = "available"
      p1 == << Probe(via, NodeStatsSummaryEndpoint, "GET") >>
      p2 == Append(p1, Probe(via, NodeCadvisorEndpoint, "GET"))
      p3 == Append(p2, Probe(via, NodeContainerEndpoint, "POST"))
      m1 == SetAvailable(mask, NodeStatsSummaryEndpoint, ns)
      m2 == SetAvailable(m1, NodeCadvisorEndpoint, cm)
  IN IF res[NodeStatsSummaryEndpoint] = "error"
     THEN [ success |-> FALSE, err |-> "transport", mask |-> mask, probes |-> p1 ]
     ELSE IF res[NodeCadvisorEndpoint] = "error"
     THEN [ success |-> FALSE, err |-> "transport", mask |-> m1, probes |-> p2 ]
     ELSE IF config.RetrieveStatsContainer
     THEN IF res[NodeContainerEndpoint] = "error"
          THEN [ success |-> FALSE, err |-> "transport", mask |-> m2, probes |-> p3 ]
          ELSE LET cs == res[NodeContainerEndpoint] = "available"
               IN [ success |-> ns /\ (cm \/ cs), err |-> "nil",
                    mask |-> SetAvailable(m2, NodeContainerEndpoint, cs),
                    probes |-> p3 ]
     ELSE [ success |-> ns /\ (cm \/ FALSE), err |-> "nil", mask |-> m2, probes |-> p2 ]

\* Events of one iteration of the loop of downloadNodeData.
Request(via, node, endpoint, ok) ==
  [ op |-> "request", via |-> via, node |-> node, endpoint |-> endpoint, ok |-> ok ]

Call(fn, via, node) ==
  [ op |-> fn, via |-> via, node |-> node, endpoint |-> -1, ok |-> TRUE ]

Note(text, node) ==
  [ op |-> "note", via |-> text, node |-> node, endpoint |-> -1, ok |-> FALSE ]

\* The order in which retrieveNodeData visits the endpoints (lines 292-318).
FetchOrder == << NodeStatsSummaryEndpoint, NodeCadvisorEndpoint, NodeContainerEndpoint >>

\* RetrieveFrom with the bug of requesting the remaining endpoints after a
\* request failed.
RECURSIVE RetrieveFrom_continuesAfterError(_, _, _, _, _)
RetrieveFrom_continuesAfterError(via, node, mask, ok, i) ==
  IF i > Len(FetchOrder) THEN [ err |-> "nil", events |-> <<>> ]
  ELSE LET e == FetchOrder[i]
           rest == RetrieveFrom_continuesAfterError(via, node, mask, ok, i + 1)
       IN IF Available(mask, e)
          THEN [ err |-> IF ok[e] THEN rest.err ELSE "request failed",
                 events |-> << Request(via, node, e, ok[e]) >> \o rest.events ]
          ELSE rest

\* retrieveNodeData from the i-th endpoint of FetchOrder on: requests each
\* endpoint the mask marks available, returns at the first error.
\* ok maps each endpoint to whether its request succeeds.
RECURSIVE RetrieveFrom(_, _, _, _, _)
RetrieveFrom(via, node, mask, ok, i) ==
  IF i > Len(FetchOrder) THEN [ err |-> "nil", events |-> <<>> ]
  ELSE LET e == FetchOrder[i]
       IN IF Available(mask, e)
          THEN IF ok[e]
               THEN LET rest == RetrieveFrom(via, node, mask, ok, i + 1)
                    IN [ err |-> rest.err,
                         events |-> << Request(via, node, e, TRUE) >> \o rest.events ]
               ELSE [ err |-> "request failed",
                      events |-> << Request(via, node, e, FALSE) >> ]
          ELSE RetrieveFrom(via, node, mask, ok, i + 1)

retrieveNodeData(via, node, mask, ok) == RetrieveFrom(via, node, mask, ok, 1)

\* directNodeFetch: resolves the address, then fetches with the Direct mask.
directNodeFetch(config, n, ok) ==
  LET a == NodeAddress(n)
      call == << Call("directNodeFetch", direct, n.name) >>
  IN IF a.err # "nil"
     THEN [ err |-> "problem getting node address", events |-> call ]
     ELSE LET r == retrieveNodeData(direct, n.name, config.DirectEndpointMask, ok)
          IN [ err |-> r.err, events |-> call \o r.events ]

\* proxyNodeFetch with the bug of fetching the endpoints of the Direct mask.
proxyNodeFetch_usesDirectMask(config, n, ok) ==
  LET r == retrieveNodeData(proxy, n.name, config.DirectEndpointMask, ok)
  IN [ err |-> r.err, events |-> << Call("proxyNodeFetch", proxy, n.name) >> \o r.events ]

\* proxyNodeFetch: fetches with the Proxy mask through the API server.
proxyNodeFetch(config, n, ok) ==
  LET r == retrieveNodeData(proxy, n.name, config.ProxyEndpointMask, ok)
  IN [ err |-> r.err, events |-> << Call("proxyNodeFetch", proxy, n.name) >> \o r.events ]

\* failedNodeList[k] = v on a Go map, the map being a function on its keys.
MapPut(m, k, v) == [ x \in (DOMAIN m) \cup {k} |-> IF x = k THEN v ELSE m[x] ]

EmptyMap == [ x \in {} |-> "" ]

\* FetchNode with the bug of forgetting the direct-failure note once the proxy
\* fallback succeeded.
FetchNode_dropsNoteOnRecovery(config, n, failed, okDirect, okProxy) ==
  LET noID == n.providerID = ""
      f0 == IF noID THEN MapPut(failed, n.name, ProviderIDMissing) ELSE failed
      tryDirect == config.nodeRetrievalMethod = direct /\ ~isFargateNode(n)
      d == directNodeFetch(config, n, okDirect)
      p == proxyNodeFetch(config, n, okProxy)
      dErr == IF tryDirect THEN d.err ELSE "skipped"
      dEv == IF tryDirect
             THEN d.events \o << Note(DirectConnectFailed, n.name) >>
             ELSE <<>>
  IN IF tryDirect /\ d.err = "nil"
     THEN [ failed |-> f0, events |-> d.events, direct |-> dErr, proxy |-> "skipped" ]
     ELSE IF p.err # "nil"
     THEN [ failed |-> MapPut(f0, n.name, ProxyConnectFailed),
            events |-> dEv \o p.events \o << Note(ProxyConnectFailed, n.name) >>,
            direct |-> dErr, proxy |-> p.err ]
     ELSE [ failed |-> f0, events |-> dEv \o p.events,
            direct |-> dErr, proxy |-> p.err ]

\* FetchNode with the bug of moving to the next node after a direct failure,
\* without the proxy fallback.
FetchNode_noFallback(config, n, failed, okDirect, okProxy) ==
  LET noID == n.providerID = ""
      f0 == IF noID THEN MapPut(failed, n.name, ProviderIDMissing) ELSE failed
      e0 == IF noID THEN << Note(ProviderIDMissing, n.name) >> ELSE <<>>
      tryDirect == config.nodeRetrievalMethod = direct /\ ~isFargateNode(n)
      d == directNodeFetch(config, n, okDirect)
      p == proxyNodeFetch(config, n, okProxy)
  IN IF tryDirect
     THEN IF d.err = "nil"
          THEN [ failed |-> f0, events |-> e0 \o d.events,
                 direct |-> d.err, proxy |-> "skipped" ]
          ELSE [ failed |-> MapPut(f0, n.name, DirectConnectFailed),
                 events |-> e0 \o d.events \o << Note(DirectConnectFailed, n.name) >>,
                 direct |-> d.err, proxy |-> "skipped" ]
     ELSE IF p.err # "nil"
     THEN [ failed |-> MapPut(f0, n.name, ProxyConnectFailed),
            events |-> e0 \o p.events \o << Note(ProxyConnectFailed, n.name) >>,
            direct |-> "skipped", proxy |-> p.err ]
     ELSE [ failed |-> f0, events |-> e0 \o p.events,
            direct |-> "skipped", proxy |-> p.err ]

\* FetchNode with the bug of moving to the next node once the missing
\* provider ID is recorded.
FetchNode_skipsNodeWithoutID(config, n, failed, okDirect, okProxy) ==
  LET noID == n.providerID = ""
      f0 == IF noID THEN MapPut(failed, n.name, ProviderIDMissing) ELSE failed
      e0 == IF noID THEN << Note(ProviderIDMissing, n.name) >> ELSE <<>>
      tryDirect == config.nodeRetrievalMethod = direct /\ ~isFargateNode(n)
      d == directNodeFetch(config, n, okDirect)
      p == proxyNodeFetch(config, n, okProxy)
      f1 == IF tryDirect THEN MapPut(f0, n.name, DirectConnectFailed) ELSE f0
      e1 == IF tryDirect
            THEN e0 \o d.events \o << Note(DirectConnectFailed, n.name) >>
            ELSE e0
      dErr == IF tryDirect THEN d.err ELSE "skipped"
  IN IF noID
     THEN [ failed |-> f0, events |-> e0, direct |-> "skipped", proxy |-> "skipped" ]
     ELSE IF tryDirect /\ d.err = "nil"
     THEN [ failed |-> f0, events |-> e0 \o d.events,
            direct |-> dErr, proxy |-> "skipped" ]
     ELSE IF p.err # "nil"
     THEN [ failed |-> MapPut(f1, n.name, ProxyConnectFailed),
            events |-> e1 \o p.events \o << Note(ProxyConnectFailed, n.name) >>,
            direct |-> dErr, proxy |-> p.err ]
     ELSE [ failed |-> f1, events |-> e1 \o p.events,
            direct |-> dErr, proxy |-> p.err ]

\* FetchNode with the bug of keeping the entry a node already has when its
\* proxy fetch fails.
FetchNode_keepsFirstNote(config, n, failed, okDirect, okProxy) ==
  LET noID == n.providerID = ""
      f0 == IF noID THEN MapPut(failed, n.name, ProviderIDMissing) ELSE failed
      e0 == IF noID THEN << Note(ProviderIDMissing, n.name) >> ELSE <<>>
      tryDirect == config.nodeRetrievalMethod = direct /\ ~isFargateNode(n)
      d == directNodeFetch(config, n, okDirect)
      p == proxyNodeFetch(config, n, okProxy)
      f1 == IF tryDirect THEN MapPut(f0, n.name, DirectConnectFailed) ELSE f0
      e1 == IF tryDirect
            THEN e0 \o d.events \o << Note(DirectConnectFailed, n.name) >>
            ELSE e0
      dErr == IF tryDirect THEN d.err ELSE "skipped"
  IN IF tryDirect /\ d.err = "nil"
     THEN [ failed |-> f0, events |-> e0 \o d.events,
            direct |-> dErr, proxy |-> "skipped" ]
     ELSE IF p.err # "nil"
     THEN [ failed |-> IF n.name \in DOMAIN f1 THEN f1
                       ELSE MapPut(f1, n.name, ProxyConnectFailed),
            events |-> e1 \o p.events \o << Note(ProxyConnectFailed, n.name) >>,
            direct |-> dErr, proxy |-> p.err ]
     ELSE [ failed |-> f1, events |-> e1 \o p.events,
            direct |-> dErr, proxy |-> p.err ]

\* FetchNode with the bug of not recording a failed proxy fetch.
FetchNode_silentProxyFailure(config, n, failed, okDirect, okProxy) ==
  LET noID == n.providerID = ""
      f0 == IF noID THEN MapPut(failed, n.name, ProviderIDMissing) ELSE failed
      e0 == IF noID THEN << Note(ProviderIDMissing, n.name) >> ELSE <<>>
      tryDirect == config.nodeRetrievalMethod = direct /\ ~isFargateNode(n)
      d == directNodeFetch(config, n, okDirect)
      p == proxyNodeFetch(config, n, okProxy)
      f1 == IF tryDirect THEN MapPut(f0, n.name, DirectConnectFailed) ELSE f0
      e1 == IF tryDirect
            THEN e0 \o d.events \o << Note(DirectConnectFailed, n.name) >>
            ELSE e0
      dErr == IF tryDirect THEN d.err ELSE "skipped"
  IN IF tryDirect /\ d.err = "nil"
     THEN [ failed |-> f0, events |-> e0 \o d.events,
            direct |-> dErr, proxy |-> "skipped" ]
     ELSE [ failed |-> f1, events |-> e1 \o p.events,
            direct |-> dErr, proxy |-> p.err ]

\* FetchNode with the bug of direct-fetching Fargate nodes too.
FetchNode_directToFargate(config, n, failed, okDirect, okProxy) ==
  LET noID == n.providerID = ""
      f0 == IF noID THEN MapPut(failed, n.name, ProviderIDMissing) ELSE failed
      e0 == IF noID THEN << Note(ProviderIDMissing, n.name) >> ELSE <<>>
      tryDirect == config.nodeRetrievalMethod = direct
      d == directNodeFetch(config, n, okDirect)
      p == proxyNodeFetch(config, n, okProxy)
      f1 == IF tryDirect THEN MapPut(f0, n.name, DirectConnectFailed) ELSE f0
      e1 == IF tryDirect
            THEN e0 \o d.events \o << Note(DirectConnectFailed, n.name) >>
            ELSE e0
      dErr == IF tryDirect THEN d.err ELSE "skipped"
  IN IF tryDirect /\ d.err = "nil"
     THEN [ failed |-> f0, events |-> e0 \o d.events,
            direct |-> dErr, proxy |-> "skipped" ]
     ELSE IF p.err # "nil"
     THEN [ failed |-> MapPut(f1, n.name, ProxyConnectFailed),
            events |-> e1 \o p.events \o << Note(ProxyConnectFailed, n.name) >>,
            direct |-> dErr, proxy |-> p.err ]
     ELSE [ failed |-> f1, events |-> e1 \o p.events,
            direct |-> dErr, proxy |-> p.err ]

\* One iteration of the loop of downloadNodeData (lines 145-175) for node n:
\* the new failedNodeList and the events of the iteration, in order.
\* okDirect / okProxy give the result of each request of the two passes.
FetchNode(config, n, failed, okDirect, okProxy) ==
  LET noID == n.providerID = ""
      f0 == IF noID THEN MapPut(failed, n.name, ProviderIDMissing) ELSE failed
      e0 == IF noID THEN << Note(ProviderIDMissing, n.name) >> ELSE <<>>
      tryDirect == config.nodeRetrievalMethod = direct /\ ~isFargateNode(n)
      d == directNodeFetch(config, n, okDirect)
      p == proxyNodeFetch(config, n, okProxy)
      f1 == IF tryDirect THEN MapPut(f0, n.name, DirectConnectFailed) ELSE f0
      e1 == IF tryDirect
            THEN e0 \o d.events \o << Note(DirectConnectFailed, n.name) >>
            ELSE e0
      dErr == IF tryDirect THEN d.err ELSE "skipped"
  IN IF tryDirect /\ d.err = "nil"
     THEN [ failed |-> f0, events |-> e0 \o d.events,
            direct |-> dErr, proxy |-> "skipped" ]
     ELSE IF p.err # "nil"
     THEN [ failed |-> MapPut(f1, n.name, ProxyConnectFailed),
            events |-> e1 \o p.events \o << Note(ProxyConnectFailed, n.name) >>,
            direct |-> dErr, proxy |-> p.err ]
     ELSE [ failed |-> f1, events |-> e1 \o p.events,
            direct |-> dErr, proxy |-> p.err ]

\* ------------------------------------------------------------------ state
VARIABLES
  config,          \* KubeAgentConfig: flags, nodeRetrievalMethod, the two masks
  pc,              \* where the agent is: start, testDirect, testProxy, idle, list, fetch
  allNodes,        \* the listing result of the last GetReadyNodes, kept on record
                   \* while no ready node came of it
  nodes,           \* ensureNodeSource: its ready nodes (gone once a probe has
                   \* returned); downloadNodeData: the ready nodes its loop has
                   \* still to visit
  ensured,         \* what ensureNodeSource did: allowDirect, its error, the two probe results
  probeLog,        \* the probes ensureNodeSource issued, in order
  attempt,         \* listing attempts the running RetryOnConflict has made (its
                   \* counter is gone once the listing succeeded)
  listErr,         \* error of the last GetReadyNodes of this cycle
  listed,          \* names of the ready nodes of this cycle, in list order
  cur,             \* the node of the last loop iteration of this cycle
  failedNodeList,  \* the failure map being built in this cycle
  outcomes,        \* per visited node of this cycle: whether it lacks a provider
                   \* ID, how its direct and its proxy pass ended
  trace,           \* the events of the last loop iteration, in order
  attempted,       \* names of the nodes a fetch was attempted for in this cycle, in order
  ret              \* what the last downloadNodeData returned

vars == << config, pc, allNodes, nodes, ensured, probeLog, attempt, listErr, listed, cur,
           failedNodeList, outcomes, trace, attempted, ret >>

cycleVars == << attempt, listErr, listed, cur, failedNodeList, outcomes, trace,
               attempted, ret >>

NotRun == [ ran |-> FALSE, res |-> <<>>, success |-> FALSE, err |-> "nil" ]

\* The record of one run of testNodeConn: what each probe it issued returned
\* (by endpoint), and its two results.
Ran(t, res) ==
  [ ran |-> TRUE,
    res |-> [ e \in { t.probes[i].endpoint : i \in DOMAIN t.probes } |-> res[e] ],
    success |-> t.success, err |-> t.err ]

\* No listing is on record.
NoListing == [ err |-> "none", items |-> <<>> ]

\* No node visited yet.
NoNode == [ name |-> "", conditions |-> <<>>, addresses |-> <<>>,
            computeType |-> "", providerID |-> "" ]

Pending == [ hasReport |-> FALSE, report |-> EmptyMap, err |-> "pending" ]

Init ==
  /\ config \in [ ForceKubeProxy : BOOLEAN,
                  RetrieveStatsContainer : BOOLEAN,
                  RetrieveNodeSummaries : {TRUE},
                  nodeRetrievalMethod : {unset},
                  DirectEndpointMask : { {} },
                  ProxyEndpointMask : { {} } ]
  /\ pc = "start"
  /\ allNodes = NoListing
  /\ nodes = <<>>
  /\ ensured = [ allowDirect |-> "not called", err |-> "pending",
                 directTest |-> NotRun, proxyTest |-> NotRun ]
  /\ probeLog = <<>>
  /\ attempt = 0
  /\ listErr = "nil"
  /\ listed = <<>>
  /\ cur = NoNode
  /\ failedNodeList = EmptyMap
  /\ outcomes = EmptyMap
  /\ trace = <<>>
  /\ attempted = <<>>
  /\ ret = Pending

\* ------------------------------------------------------- ensureNodeSource
\* ListStep with the bug of resolving the first node's address only when
\* direct connection is allowed.
ListStep_addressOnlyForDirect(cfg, r) ==
  IF r.err # "nil"
  THEN [ err |-> "error retrieving nodes", next |-> "idle", allowDirect |-> "not called" ]
  ELSE IF ~allowDirectConnect(cfg, r.nodes)
  THEN [ err |-> "pending", next |-> "testProxy", allowDirect |-> "denied" ]
  ELSE IF NodeAddress(r.nodes[1]).err # "nil"
  THEN [ err |-> "error retrieving node addresses", next |-> "idle",
         allowDirect |-> "allowed" ]
  ELSE [ err |-> "pending", next |-> "testDirect", allowDirect |-> "allowed" ]

\* Lines 344-356: what ensureNodeSource does with the result r of
\* GetReadyNodes: return an error, or go on to the Direct or the Proxy probe.
ListStep(cfg, r) ==
  IF r.err # "nil"
  THEN [ err |-> "error retrieving nodes", next |-> "idle", allowDirect |-> "not called" ]
  ELSE IF NodeAddress(r.nodes[1]).err # "nil"
  THEN [ err |-> "error retrieving node addresses", next |-> "idle",
         allowDirect |-> "not called" ]
  ELSE IF allowDirectConnect(cfg, r.nodes)
  THEN [ err |-> "pending", next |-> "testDirect", allowDirect |-> "allowed" ]
  ELSE [ err |-> "pending", next |-> "testProxy", allowDirect |-> "denied" ]

\* DirectStep with the bug of going on to the Proxy probe after selecting direct.
DirectStep_fallsThrough(cfg, t) ==
  IF t.err # "nil"
  THEN [ config |-> cfg, err |-> t.err, next |-> "idle" ]
  ELSE IF t.success
  THEN [ config |-> [ cfg EXCEPT !.nodeRetrievalMethod = direct ],
         err |-> "pending", next |-> "testProxy" ]
  ELSE [ config |-> cfg, err |-> "pending", next |-> "testProxy" ]

\* Lines 361-368: what ensureNodeSource does with the result t of the Direct
\* probe: return its error, select direct and return, or go on to the Proxy probe.
DirectStep(cfg, t) ==
  IF t.err # "nil"
  THEN [ config |-> cfg, err |-> t.err, next |-> "idle" ]
  ELSE IF t.success
  THEN [ config |-> [ cfg EXCEPT !.nodeRetrievalMethod = direct ],
         err |-> "nil", next |-> "idle" ]
  ELSE [ config |-> cfg, err |-> "pending", next |-> "testProxy" ]

\* ProxyStep with the bug of leaving collection enabled when giving up.
ProxyStep_keepsCollection(cfg, t) ==
  IF t.err # "nil"
  THEN [ config |-> cfg, err |-> t.err ]
  ELSE IF t.success
  THEN [ config |-> [ cfg EXCEPT !.nodeRetrievalMethod = proxy ], err |-> "nil" ]
  ELSE [ config |-> [ cfg EXCEPT !.nodeRetrievalMethod = unreachable ],
         err |-> "unable to retrieve node metrics" ]

\* Lines 374-385: what ensureNodeSource does with the result t of the Proxy
\* probe: return its error, select proxy, or give up (unreachable).
ProxyStep(cfg, t) ==
  IF t.err # "nil"
  THEN [ config |-> cfg, err |-> t.err ]
  ELSE IF t.success
  THEN [ config |-> [ cfg EXCEPT !.nodeRetrievalMethod = proxy ], err |-> "nil" ]
  ELSE [ config |-> [ cfg EXCEPT !.nodeRetrievalMethod = unreachable,
                                 !.RetrieveNodeSummaries = FALSE ],
         err |-> "unable to retrieve node metrics" ]

\* ensureNodeSource up to the decision on direct connection.
EnsureList ==
  /\ pc = "start"
  /\ \E l \in ListResults(SessionConditionLists) :
       LET r == GetReadyNodes(l)
           s == ListStep(config, r)
       IN /\ ensured' = [ ensured EXCEPT !.err = s.err, !.allowDirect = s.allowDirect ]
          /\ pc' = s.next
          /\ nodes' = r.nodes
          /\ allNodes' = IF r.nodes = <<>> THEN l ELSE NoListing
  /\ UNCHANGED << config, probeLog, cycleVars >>

\* ensureNodeSource: the Direct probe of the first node.
TestDirect ==
  /\ pc = "testDirect"
  /\ \E res \in [ Endpoints -> ProbeOutcomes ] :
       LET t == testNodeConn(config, direct, config.DirectEndpointMask, res)
           s == DirectStep([ config EXCEPT !.DirectEndpointMask = t.mask ], t)
       IN /\ probeLog' = probeLog \o t.probes
          /\ config' = s.config
          /\ ensured' = [ ensured EXCEPT !.directTest = Ran(t, res), !.err = s.err ]
          /\ pc' = s.next
          /\ nodes' = IF s.next = "idle" THEN <<>> ELSE nodes
  /\ UNCHANGED << allNodes, cycleVars >>

\* ensureNodeSource: the Proxy probe of the first node, and the verdict.
TestProxy ==
  /\ pc = "testProxy"
  /\ \E res \in [ Endpoints -> ProbeOutcomes ] :
       LET t == testNodeConn(config, proxy, config.ProxyEndpointMask, res)
           s == ProxyStep([ config EXCEPT !.ProxyEndpointMask = t.mask ], t)
       IN /\ probeLog' = probeLog \o t.probes
          /\ config' = s.config
          /\ ensured' = [ ensured EXCEPT !.proxyTest = Ran(t, res), !.err = s.err ]
  /\ pc' = "idle"
  /\ nodes' = <<>>
  /\ UNCHANGED << allNodes, cycleVars >>

\* ------------------------------------------------------- downloadNodeData
\* The caller of retrieveNodeSummaries is not part of this file: node
\* summaries are collected in the sessions whose prober found a working
\* strategy and left collection enabled.
CollectionEnabled == config.RetrieveNodeSummaries /\ ensured.err = "nil"

\* retrieveNodeSummaries calls downloadNodeData (lines 451-454, 122-129):
\* a fresh failedNodeList, no listing attempt made yet.
StartCycle ==
  /\ pc = "idle"
  /\ CollectionEnabled
  /\ pc' = "list"
  /\ attempt' = 0
  /\ listErr' = "nil"
  /\ listed' = <<>>
  /\ cur' = NoNode
  /\ nodes' = <<>>
  /\ failedNodeList' = EmptyMap
  /\ outcomes' = EmptyMap
  /\ trace' = <<>>
  /\ attempted' = <<>>
  /\ ret' = Pending
  /\ allNodes' = NoListing
  /\ UNCHANGED << config, ensured, probeLog >>

\* retry.RetryOnConflict: whether the listing is tried again after err,
\* tried attempts having been made (this one included).
\* A pass ended with an error.
PassBroke(e) == e \notin {"nil", "skipped"}

RetryOnConflict(err, tried) == err = "conflict" /\ tried < RetrySteps

\* ListingStep with the bug of entering the fetch loop on a listing error.
ListingStep_ignoresError(r, tried) ==
  IF r.err = "nil" THEN "fetch"
  ELSE IF RetryOnConflict(r.err, tried) THEN "list"
  ELSE "fetch"

\* Lines 131-137: what downloadNodeData does with the result r of the
\* tried-th listing attempt: fetch the nodes, list again, or return the error.
ListingStep(r, tried) ==
  IF r.err = "nil" THEN "fetch"
  ELSE IF RetryOnConflict(r.err, tried) THEN "list"
  ELSE "idle"

\* One listing attempt of downloadNodeData under RetryOnConflict; on a final
\* error downloadNodeData returns (nil, error).
ListNodes ==
  /\ pc = "list"
  /\ \E l \in ListResults(SessionConditionLists) :
       LET r == GetReadyNodes(l)
       IN /\ attempt' = IF ListingStep(r, attempt + 1) = "fetch" THEN 0 ELSE attempt + 1
          /\ listErr' = r.err
          /\ allNodes' = IF r.nodes = <<>> THEN l ELSE NoListing
          /\ pc' = ListingStep(r, attempt + 1)
          /\ nodes' = r.nodes
          /\ listed' = [ i \in DOMAIN r.nodes |-> r.nodes[i].name ]
          /\ ret' = IF ListingStep(r, attempt + 1) = "idle"
                    THEN [ hasReport |-> FALSE, report |-> EmptyMap,
                           err |-> "unable to get a list of nodes" ]
                    ELSE ret
  /\ UNCHANGED << config, ensured, probeLog, cur, failedNodeList, outcomes,
                  trace, attempted >>

\* The loop of downloadNodeData with the bug of ending at the first node
\* whose proxy fetch failed.
LoopRest_stopsAtFailure(rest, r) ==
  IF PassBroke(r.proxy) THEN <<>> ELSE rest

\* Line 145: the nodes the loop has still to visit after an iteration with
\* result r, rest being those after the node just visited.
LoopRest(rest, r) == rest

\* The loop of downloadNodeData with the bug of demoting the session to proxy
\* mode once a node's direct fetch failed.
ConfigAfterFetch_demotesOnDirectFailure(cfg, r) ==
  IF PassBroke(r.direct) THEN [ cfg EXCEPT !.nodeRetrievalMethod = proxy ] ELSE cfg

\* Lines 161-174: the configuration after an iteration with result r. The
\* loop reads config.nodeRetrievalMethod and hands the masks to
\* retrieveNodeData, which only calls Available on them: nothing is written.
ConfigAfterFetch(cfg, r) == cfg

\* The transport's answers in one pass, given the endpoints whose request
\* fails: a request to any other endpoint succeeds.
Succeeds(failing) == [ e \in Endpoints |-> e \notin failing ]

\* Lines 145-175: one iteration of the loop, for the next node of the list.
\* The environment chooses, among the endpoints each mask allows, those
\* whose request fails for this node.
FetchNext ==
  /\ pc = "fetch"
  /\ nodes # <<>>
  /\ \E failDirect \in SUBSET config.DirectEndpointMask,
        failProxy \in SUBSET config.ProxyEndpointMask :
       LET n == Head(nodes)
           r == FetchNode(config, n, failedNodeList,
                          Succeeds(failDirect), Succeeds(failProxy))
       IN /\ failedNodeList' = r.failed
          /\ trace' = r.events
          /\ outcomes' = MapPut(outcomes, n.name,
                                [ noID |-> n.providerID = "",
                                  direct |-> r.direct, proxy |-> r.proxy ])
          /\ attempted' = Append(attempted, n.name)
          /\ cur' = n
          /\ nodes' = LoopRest(Tail(nodes), r)
          /\ config' = ConfigAfterFetch(config, r)
  /\ UNCHANGED << pc, allNodes, ensured, probeLog, attempt, listErr, listed, ret >>

\* Line 177: the loop is over, downloadNodeData returns (failedNodeList, nil).
Return ==
  /\ pc = "fetch"
  /\ nodes = <<>>
  /\ ret' = [ hasReport |-> TRUE, report |-> failedNodeList, err |-> "nil" ]
  /\ pc' = "idle"
  /\ UNCHANGED << config, allNodes, nodes, ensured, probeLog, attempt, listErr, listed, cur,
                  failedNodeList, outcomes, trace, attempted >>

Next ==
  \/ EnsureList
  \/ TestDirect
  \/ TestProxy
  \/ StartCycle
  \/ ListNodes
  \/ FetchNext
  \/ Return

Spec == Init /\ [][Next]_vars

TypeOK ==
  /\ pc \in {"start", "testDirect", "testProxy", "idle", "list", "fetch"}
  /\ config.nodeRetrievalMethod \in {unset, direct, proxy, unreachable}
  /\ config.DirectEndpointMask \subseteq Endpoints
  /\ config.ProxyEndpointMask \subseteq Endpoints
  /\ Len(nodes) <= MaxNodes
  /\ attempt \in 0..RetrySteps

\* ------------------------------------------------- GetReadyNodes on its own
\* GetReadyNodes applied once to an arbitrary listing result, the nodes
\* reporting any of ConditionLists.
InitListing ==
  /\ allNodes \in ListResults(ConditionLists)
  /\ config = [ ForceKubeProxy |-> FALSE, RetrieveStatsContainer |-> FALSE,
                RetrieveNodeSummaries |-> TRUE, nodeRetrievalMethod |-> unset,
                DirectEndpointMask |-> {}, ProxyEndpointMask |-> {} ]
  /\ pc = "start"
  /\ nodes = <<>>
  /\ ensured = [ allowDirect |-> "not called", err |-> "pending",
                 directTest |-> NotRun, proxyTest |-> NotRun ]
  /\ probeLog = <<>>
  /\ attempt = 0
  /\ listErr = "nil"
  /\ listed = <<>>
  /\ cur = NoNode
  /\ failedNodeList = EmptyMap
  /\ outcomes = EmptyMap
  /\ trace = <<>>
  /\ attempted = <<>>
  /\ ret = Pending

CallGetReadyNodes ==
  /\ pc = "start"
  /\ LET r == GetReadyNodes(allNodes)
     IN /\ nodes' = r.nodes
        /\ listErr' = r.err
  /\ pc' = "listed"
  /\ UNCHANGED << config, allNodes, ensured, probeLog, attempt, listed, cur,
                  failedNodeList, outcomes, trace, attempted, ret >>

ListSpec == InitListing /\ [][CallGetReadyNodes]_vars

\* ---------------------------------------------- downloadNodeData on its own
\* downloadNodeData takes the configuration as a parameter: here it is called,
\* cycle after cycle, with any mode that collects and any pair of masks, the
\* caller having found collection enabled. The masks are the empty one, one
\* without StatsSummary and the full one.
CycleMasks ==
  { {},
    {NodeCadvisorEndpoint, NodeContainerEndpoint},
    Endpoints }

InitCycle ==
  /\ config \in [ ForceKubeProxy : {FALSE},
                  RetrieveStatsContainer : {TRUE},
                  RetrieveNodeSummaries : {TRUE},
                  nodeRetrievalMethod : {direct, proxy},
                  DirectEndpointMask : CycleMasks,
                  ProxyEndpointMask : CycleMasks ]
  /\ pc = "idle"
  /\ allNodes = NoListing
  /\ nodes = <<>>
  /\ ensured = [ allowDirect |-> "not called", err |-> "nil",
                 directTest |-> NotRun, proxyTest |-> NotRun ]
  /\ probeLog = <<>>
  /\ attempt = 0
  /\ listErr = "nil"
  /\ listed = <<>>
  /\ cur = NoNode
  /\ failedNodeList = EmptyMap
  /\ outcomes = EmptyMap
  /\ trace = <<>>
  /\ attempted = <<>>
  /\ ret = Pending

NextCycle ==
  \/ StartCycle
  \/ ListNodes
  \/ FetchNext
  \/ Return

CycleSpec == InitCycle /\ [][NextCycle]_vars

\* ----------------------------------------------------------------- claims
\* A node is ready when its Ready condition is present with status True.
IsReady(n) ==
  \E i \in DOMAIN n.conditions :
    n.conditions[i].type = NodeReady /\ n.conditions[i].status = ConditionTrue

RECURSIVE ReadySubsequence(_)
ReadySubsequence(items) ==
  IF items = <<>> THEN <<>>
  ELSE IF IsReady(Head(items)) THEN << Head(items) >> \o ReadySubsequence(Tail(items))
  ELSE ReadySubsequence(Tail(items))

\* C1: whenever the listing holds at least one ready node, GetReadyNodes
\* succeeds and returns exactly the nodes whose Ready condition is present with
\* status True, in list order; a node whose Ready condition is absent, False
\* or Unknown is not returned.
C1_ReturnsExactlyReadyNodes ==
  ( /\ pc = "listed"
    /\ allNodes.err = "nil"
    /\ \E i \in DOMAIN allNodes.items : IsReady(allNodes.items[i]) )
  => ( /\ listErr = "nil"
       /\ nodes = ReadySubsequence(allNodes.items) )

\* A cycle has returned (downloadNodeData is over and no new cycle started).
CycleReturned == pc = "idle" /\ ret.err # "pending"

\* How a pass recorded in outcomes ended.
PassFailed(e) == e \notin {"nil", "skipped"}

\* Node name's direct fetch failed and its proxy fallback succeeded.
RecoveredByProxy(name) ==
  PassFailed(outcomes[name].direct) /\ outcomes[name].proxy = "nil"

\* C2 as stated: in a cycle run with mode Direct or Proxy, a node whose direct
\* fetch failed but whose proxy fallback succeeded has no entry in the
\* returned report.
C2_RecoveredNodeHasNoEntry ==
  ( /\ CycleReturned
    /\ ret.hasReport
    /\ config.nodeRetrievalMethod \in {direct, proxy} )
  => \A name \in DOMAIN outcomes :
       RecoveredByProxy(name) => name \notin DOMAIN ret.report

\* C2 amended: in a cycle run with mode Direct or Proxy, the returned report
\* holds a "proxy connect failed" entry for a node only if that node's proxy
\* fetch failed in the cycle, and a node whose direct fetch failed but whose
\* proxy fallback succeeded keeps its "direct connect failed (will attempt
\* proxy)" entry in the returned report.
C2_RecoveredNodeKeepsDirectNote ==
  ( /\ CycleReturned
    /\ ret.hasReport
    /\ config.nodeRetrievalMethod \in {direct, proxy} )
  => \A name \in DOMAIN outcomes :
       /\ RecoveredByProxy(name)
            => /\ name \in DOMAIN ret.report
               /\ ret.report[name] = DirectConnectFailed
       /\ ( /\ name \in DOMAIN ret.report
            /\ ret.report[name] = ProxyConnectFailed )
            => PassFailed(outcomes[name].proxy)

\* C2 witness: a cycle in Direct mode returned a report after a node's direct
\* request failed and its proxy fallback ended without error.
C2_Witness ==
  /\ CycleReturned
  /\ ret.hasReport
  /\ config.nodeRetrievalMethod = direct
  /\ \E name \in DOMAIN outcomes :
       /\ outcomes[name].direct = "request failed"
       /\ outcomes[name].proxy = "nil"

\* The direct pass of the last iteration failed: a direct request failed, or
\* the node has no internal IP to build the direct address from.
DirectFailedInTrace ==
  \/ \E k \in DOMAIN trace :
       /\ trace[k].op = "request" /\ trace[k].via = direct
       /\ trace[k].node = cur.name /\ ~trace[k].ok
  \/ /\ \E k \in DOMAIN trace : trace[k] = Call("directNodeFetch", direct, cur.name)
     /\ \A a \in DOMAIN cur.addresses : cur.addresses[a].type # NodeInternalIP

\* C3: in mode Direct, when the direct fetch of a non-Fargate node fails, the
\* iteration records "direct connect failed (will attempt proxy)" for the node
\* after the direct pass and proxy-fetches the same node right after, within
\* the same iteration.
C3_DirectFailureFallsThroughToProxy ==
  ( /\ cur # NoNode
    /\ config.nodeRetrievalMethod = direct
    /\ ~isFargateNode(cur)
    /\ DirectFailedInTrace )
  => \E i \in DOMAIN trace :
       /\ trace[i] = Note(DirectConnectFailed, cur.name)
       /\ i + 1 \in DOMAIN trace
       /\ trace[i + 1] = Call("proxyNodeFetch", proxy, cur.name)
       /\ \A k \in 1..(i - 1) : trace[k].via # proxy
       /\ \E k \in 1..(i - 1) : trace[k] = Call("directNodeFetch", direct, cur.name)

\* C3 witness: in mode Direct the last iteration visited a non-Fargate node
\* and one of its direct requests failed.
C3_Witness ==
  /\ cur # NoNode
  /\ config.nodeRetrievalMethod = direct
  /\ ~isFargateNode(cur)
  /\ \E k \in DOMAIN trace :
       trace[k].op = "request" /\ trace[k].via = direct /\ ~trace[k].ok

\* ensureNodeSource has returned.
EnsureReturned == ensured.err # "pending"

\* The probe of endpoint e in the run t of testNodeConn found it available.
FoundAvailable(t, e) == e \in DOMAIN t.res /\ t.res[e] = "available"

\* No probe of the run t of testNodeConn returned a transport error.
NoTransportError(t) == \A e \in DOMAIN t.res : t.res[e] # "error"

\* C4: a run of testNodeConn in which no probe returned a transport error
\* reports success exactly when StatsSummary is available and CAdvisor or
\* Container is available, Container counting as unavailable when
\* container-stats collection is not configured.
C4_ProbeSuccessRule ==
  \A t \in {ensured.directTest, ensured.proxyTest} :
    (t.ran /\ NoTransportError(t))
    => /\ t.err = "nil"
       /\ t.success <=>
            /\ FoundAvailable(t, NodeStatsSummaryEndpoint)
            /\ \/ FoundAvailable(t, NodeCadvisorEndpoint)
               \/ /\ config.RetrieveStatsContainer
                  /\ FoundAvailable(t, NodeContainerEndpoint)

\* C4 witness: a Direct probe succeeded on StatsSummary and Container alone,
\* CAdvisor being unavailable.
C4_Witness ==
  /\ ensured.directTest.ran
  /\ ensured.directTest.success
  /\ NoTransportError(ensured.directTest)
  /\ ensured.directTest.res[NodeCadvisorEndpoint] = "unavailable"
  /\ FoundAvailable(ensured.directTest, NodeContainerEndpoint)

\* C5 as stated: once ensureNodeSource has returned, if direct connection was
\* not allowed or the Direct probe ended with any outcome other than success
\* (failure, or a transport error), the Proxy probe was run, and mode is Proxy
\* if that probe succeeded.
C5_ProxyProbedUnlessDirectSucceeded ==
  ( /\ EnsureReturned
    /\ \/ ensured.allowDirect = "denied"
       \/ ensured.directTest.ran /\ ~ensured.directTest.success )
  => /\ ensured.proxyTest.ran
     /\ \E k \in DOMAIN probeLog : probeLog[k].via = proxy
     /\ ensured.proxyTest.success => config.nodeRetrievalMethod = proxy

\* C6: once ensureNodeSource has returned, mode is Direct exactly when direct
\* connection was allowed and the Direct probe succeeded; and whenever mode is
\* Direct no Proxy probe has been issued in the session.
C6_DirectIffAllowedAndProbed ==
  /\ EnsureReturned
       => ( config.nodeRetrievalMethod = direct
            <=> /\ ensured.allowDirect = "allowed"
                /\ ensured.directTest.ran
                /\ ensured.directTest.success )
  /\ ~EnsureReturned => config.nodeRetrievalMethod # direct
  /\ config.nodeRetrievalMethod = direct
       => /\ ~ensured.proxyTest.ran
          /\ \A k \in DOMAIN probeLog : probeLog[k].via # proxy
          /\ ensured.err = "nil"

\* C6 witness: the session runs in mode Direct after a successful Direct probe.
C6_Witness ==
  /\ EnsureReturned
  /\ config.nodeRetrievalMethod = direct
  /\ ensured.directTest.success
  /\ pc = "fetch"

\* C7: allowDirectConnect returns false exactly when the session forces proxy
\* mode or some node of the ready list carries the Fargate label; and when it
\* returned false no Direct probe is issued and mode is never Direct.
C7_DirectDeniedOnForceOrFargate ==
  /\ pc \in {"testDirect", "testProxy"}
       => ( ensured.allowDirect = "denied"
            <=> \/ config.ForceKubeProxy
                \/ \E i \in DOMAIN nodes : nodes[i].computeType = fargate )
  /\ pc \in {"testDirect", "testProxy"} => ensured.allowDirect \in {"allowed", "denied"}
  /\ ensured.allowDirect = "denied"
       => /\ config.nodeRetrievalMethod # direct
          /\ ~ensured.directTest.ran
          /\ \A k \in DOMAIN probeLog : probeLog[k].via # direct
          /\ pc # "testDirect"

\* C7 witness: direct connection was denied, without force-proxy, for a ready
\* list whose first node is not a Fargate node and whose second node is.
C7_Witness ==
  /\ pc = "testProxy"
  /\ ensured.allowDirect = "denied"
  /\ ~config.ForceKubeProxy
  /\ Len(nodes) = 2
  /\ nodes[1].computeType # fargate
  /\ nodes[2].computeType = fargate

\* The listing ensureNodeSource ran on held no ready node.
ZeroReadyAtEnsure ==
  /\ EnsureReturned
  /\ ensured.allowDirect = "not called"
  /\ ret.err = "pending"
  /\ allNodes.err = "nil"
  /\ \A i \in DOMAIN allNodes.items : ~IsReady(allNodes.items[i])

\* ensureNodeSource probed, and neither the Direct nor the Proxy probe succeeded.
NeitherProbeSucceeded ==
  /\ EnsureReturned
  /\ ensured.directTest.ran \/ ensured.proxyTest.ran
  /\ ~ensured.directTest.success
  /\ ~ensured.proxyTest.success

\* C8 as stated: when the listing yields zero ready nodes, or neither probe
\* succeeds, ensureNodeSource returns an error and the configuration it
\* returns has RetrieveNodeSummaries = false; in the second case the mode is
\* Unreachable.
C8_FatalCasesDisableCollection ==
  /\ ZeroReadyAtEnsure
       => ensured.err # "nil" /\ ~config.RetrieveNodeSummaries
  /\ NeitherProbeSucceeded
       => /\ ensured.err # "nil"
          /\ ~config.RetrieveNodeSummaries
          /\ config.nodeRetrievalMethod = unreachable

\* The configuration ensureNodeSource was entered with (masks apart).
AsOnEntry ==
  /\ config.RetrieveNodeSummaries
  /\ config.nodeRetrievalMethod = unset

\* C8 amended: in both cases ensureNodeSource returns an error. When the
\* listing yields zero ready nodes the configuration is returned unchanged
\* (RetrieveNodeSummaries and the mode as on entry, both masks untouched).
\* When neither probe succeeds and the Proxy probe ended without a transport
\* error, the returned configuration has mode Unreachable and
\* RetrieveNodeSummaries = false; when the last probe run ended with a
\* transport error, RetrieveNodeSummaries and the mode are as on entry.
C8_OnlyCompletedProbesDisableCollection ==
  /\ ZeroReadyAtEnsure
       => /\ ensured.err # "nil"
          /\ AsOnEntry
          /\ config.DirectEndpointMask = {} /\ config.ProxyEndpointMask = {}
  /\ NeitherProbeSucceeded
       => /\ ensured.err # "nil"
          /\ ( ensured.proxyTest.ran /\ NoTransportError(ensured.proxyTest) )
               => /\ config.nodeRetrievalMethod = unreachable
                  /\ ~config.RetrieveNodeSummaries
          /\ ~( ensured.proxyTest.ran /\ NoTransportError(ensured.proxyTest) )
               => AsOnEntry

\* C8 witness: the Direct probe and then the Proxy probe completed without
\* success, and the session is Unreachable.
C8_Witness ==
  /\ NeitherProbeSucceeded
  /\ ensured.directTest.ran
  /\ ensured.proxyTest.ran
  /\ NoTransportError(ensured.proxyTest)
  /\ config.nodeRetrievalMethod = unreachable

\* A fetch (direct or proxy) was attempted for node name in the last iteration.
FetchAttempted(name) ==
  \E k \in DOMAIN trace :
    /\ trace[k].op \in {"directNodeFetch", "proxyNodeFetch"}
    /\ trace[k].node = name

\* C9: in a cycle whose listing succeeded, the loop visits the nodes of the
\* ready list one by one in list order and attempts a fetch for each, however
\* the earlier nodes ended (each iteration leaves one node less to visit); the
\* cycle returns the report with a nil error, after a fetch attempt for every
\* node of the list.
C9_EveryNodeAttemptedInOrder ==
  /\ pc = "fetch"
       => /\ listErr = "nil"
          /\ Len(attempted) <= Len(listed)
          /\ attempted = SubSeq(listed, 1, Len(attempted))
          /\ Len(attempted) + Len(nodes) = Len(listed)
          /\ attempted # <<>>
               => /\ cur.name = attempted[Len(attempted)]
                  /\ FetchAttempted(cur.name)
  /\ ( CycleReturned /\ listErr = "nil" )
       => /\ attempted = listed
          /\ listed # <<>>
          /\ DOMAIN outcomes = { listed[i] : i \in DOMAIN listed }
          /\ ret.hasReport
          /\ ret.err = "nil"

\* C9 witness: a cycle over two nodes returned its report although the proxy
\* fetch of the first node had failed.
C9_Witness ==
  /\ CycleReturned
  /\ ret.hasReport
  /\ Len(listed) = 2
  /\ attempted = listed
  /\ listed[1] \in DOMAIN ret.report
  /\ ret.report[listed[1]] = ProxyConnectFailed

\* The listing result on record is a failed listing: an API error, or no
\* ready node among the items.
ListingFailed ==
  /\ allNodes # NoListing
  /\ \/ allNodes.err # "nil"
     \/ \A i \in DOMAIN allNodes.items : ~IsReady(allNodes.items[i])

\* C10: when the ready-node listing of a cycle fails (zero ready nodes, or a
\* listing error that RetryOnConflict does not retry away), downloadNodeData
\* returns an error and no report, and no fetch was attempted nor any request
\* issued in that cycle; the fetch loop is never entered on a failed listing.
C10_FailedListingAbortsCycle ==
  /\ ( CycleReturned /\ ListingFailed )
       => /\ ret.err # "nil"
          /\ ~ret.hasReport
          /\ attempted = <<>>
          /\ trace = <<>>
          /\ outcomes = EmptyMap
          /\ allNodes.err = "conflict" => attempt = RetrySteps
          /\ allNodes.err # "conflict" => attempt <= RetrySteps
  /\ pc = "fetch" => ~ListingFailed
  /\ ( pc = "list" /\ ListingFailed )
       => /\ allNodes.err = "conflict"
          /\ attempt < RetrySteps
          /\ attempted = <<>> /\ trace = <<>>

\* C10 witness: a cycle returned an error because its listing held nodes but
\* none of them ready.
C10_Witness ==
  /\ CycleReturned
  /\ allNodes.err = "nil"
  /\ allNodes.items # <<>>
  /\ \A i \in DOMAIN allNodes.items : ~IsReady(allNodes.items[i])
  /\ ret.err # "nil"

\* The events of the last iteration that belong to the direct fetch: the call
\* of directNodeFetch and the requests built by the Direct address builder.
DirectEvents ==
  { k \in DOMAIN trace : trace[k].op \in {"directNodeFetch", "request"}
                          /\ trace[k].via = direct }

\* C11: in every iteration of a cycle, a direct fetch is performed for the
\* node exactly when mode is Direct and the node is not a Fargate node, its
\* requests then going to endpoints of the Direct mask only; with mode Proxy
\* nothing in the iteration uses the Direct address builder, and a Fargate
\* node is never direct-fetched.
C11_DirectFetchIffDirectModeAndNotFargate ==
  cur # NoNode
  => /\ ( \E k \in DOMAIN trace : trace[k] = Call("directNodeFetch", direct, cur.name) )
          <=> ( config.nodeRetrievalMethod = direct /\ ~isFargateNode(cur) )
     /\ DirectEvents # {}
          => ( config.nodeRetrievalMethod = direct /\ ~isFargateNode(cur) )
     /\ \A k \in DirectEvents :
          /\ trace[k].node = cur.name
          /\ trace[k].op = "request" => trace[k].endpoint \in config.DirectEndpointMask
     /\ outcomes[cur.name].direct # "skipped"
          <=> ( config.nodeRetrievalMethod = direct /\ ~isFargateNode(cur) )

\* C11 witness: in mode Direct the last iteration visited a Fargate node that
\* has an internal IP, and fetched it by proxy only.
C11_Witness ==
  /\ cur # NoNode
  /\ config.nodeRetrievalMethod = direct
  /\ isFargateNode(cur)
  /\ NodeAddress(cur).err = "nil"
  /\ DirectEvents = {}
  /\ \E k \in DOMAIN trace : trace[k] = Call("proxyNodeFetch", proxy, cur.name)

\* The requests of the last iteration issued in the pass through via, in order.
PassRequests(via) ==
  LET InPass(e) == e.op = "request" /\ e.via = via
  IN SelectSeq(trace, InPass)

\* The endpoints a mask marks available, in the order StatsSummary, CAdvisor,
\* Container.
Masked(mask) ==
  LET Marked(e) == e \in mask
  IN SelectSeq(FetchOrder, Marked)

\* The mask of each pass, and how the pass of the last iteration ended.
MaskOf(via) ==
  IF via = direct THEN config.DirectEndpointMask ELSE config.ProxyEndpointMask

PassErr(via) ==
  IF via = direct THEN outcomes[cur.name].direct ELSE outcomes[cur.name].proxy

\* retrieveNodeData ran in the pass through via of the last iteration.
PassRan(via) ==
  /\ cur # NoNode
  /\ PassErr(via) \in {"nil", "request failed"}

\* C12: in every pass of retrieveNodeData the requests issued are a prefix of
\* StatsSummary, CAdvisor, Container restricted to the endpoints the mask
\* marks available; a request that returns an error is the last request of
\* the pass and the pass returns an error; the pass returns no error exactly
\* when every masked endpoint was requested and every request succeeded.
C12_FirstErrorAbortsPass ==
  \A via \in {direct, proxy} :
    PassRan(via)
    => LET reqs == PassRequests(via)
           m == Masked(MaskOf(via))
       IN /\ Len(reqs) <= Len(m)
          /\ \A i \in DOMAIN reqs :
               /\ reqs[i].endpoint = m[i]
               /\ reqs[i].node = cur.name
               /\ ~reqs[i].ok => i = Len(reqs)
          /\ PassErr(via) = "nil"
               <=> ( Len(reqs) = Len(m) /\ \A i \in DOMAIN reqs : reqs[i].ok )
          /\ PassErr(via) # "nil"
               <=> ( \E i \in DOMAIN reqs : ~reqs[i].ok )

\* C12 witness: with all three endpoints in the mask, a proxy pass ended after
\* StatsSummary succeeded and CAdvisor failed, Container not being requested.
C12_Witness ==
  /\ PassRan(proxy)
  /\ config.ProxyEndpointMask = Endpoints
  /\ PassRequests(proxy) =
       << Request(proxy, cur.name, NodeStatsSummaryEndpoint, TRUE),
          Request(proxy, cur.name, NodeCadvisorEndpoint, FALSE) >>
  /\ PassErr(proxy) = "request failed"

\* The pass through via of the last iteration completed: every endpoint of
\* its mask was requested, in order, and every request succeeded.
PassComplete(via) ==
  /\ PassRan(via)
  /\ PassErr(via) = "nil"
  /\ LET reqs == PassRequests(via)
         m == Masked(MaskOf(via))
     IN /\ Len(reqs) = Len(m)
        /\ \A i \in DOMAIN reqs : reqs[i].endpoint = m[i] /\ reqs[i].ok

\* C13: a node that has no entry in the failure map after its iteration, and
\* so none in the report the cycle returns, has a provider ID and a fetch pass
\* (direct, or proxy) that completed with every endpoint of its mask fetched
\* without error, no pass for it having failed.
C13_NoEntryMeansFullSuccess ==
  /\ ( cur # NoNode /\ cur.name \notin DOMAIN failedNodeList )
       => /\ cur.providerID # ""
          /\ PassComplete(direct) \/ PassComplete(proxy)
          /\ ~PassFailed(PassErr(direct)) /\ ~PassFailed(PassErr(proxy))
  /\ ( CycleReturned /\ ret.hasReport )
       => \A i \in DOMAIN listed :
            listed[i] \notin DOMAIN ret.report
            => /\ listed[i] \in DOMAIN outcomes
               /\ ~outcomes[listed[i]].noID
               /\ outcomes[listed[i]].direct = "nil" \/ outcomes[listed[i]].proxy = "nil"
               /\ ~PassFailed(outcomes[listed[i]].direct)
               /\ ~PassFailed(outcomes[listed[i]].proxy)

\* C13 witness: a cycle over two nodes returned a report that holds the first
\* node and not the second, whose proxy pass fetched StatsSummary.
C13_Witness ==
  /\ CycleReturned
  /\ ret.hasReport
  /\ Len(listed) = 2
  /\ listed[1] \in DOMAIN ret.report
  /\ listed[2] \notin DOMAIN ret.report
  /\ cur.name = listed[2]
  /\ PassComplete(proxy)
  /\ PassRequests(proxy) # <<>>

\* Node n reports no address of type InternalIP.
NoInternalIP(n) ==
  \A a \in DOMAIN n.addresses : n.addresses[a].type # NodeInternalIP

\* C14: for a node without an internal-IP address NodeAddress fails and
\* yields no address, whatever other addresses the node reports, and no direct
\* request is issued to the node; in mode Direct, directNodeFetch (called for
\* it unless it is a Fargate node) returns the address error before any
\* request, "direct connect failed" is recorded for the node and its proxy
\* fetch follows at once.
C14_NoInternalIPNeverDirectFetched ==
  ( cur # NoNode /\ NoInternalIP(cur) )
  => /\ NodeAddress(cur).err # "nil"
     /\ NodeAddress(cur).ip = ""
     /\ PassRequests(direct) = <<>>
     /\ ( config.nodeRetrievalMethod = direct /\ ~isFargateNode(cur) )
          => /\ PassErr(direct) = "problem getting node address"
             /\ \E i \in DOMAIN trace :
                  /\ trace[i] = Call("directNodeFetch", direct, cur.name)
                  /\ i + 2 \in DOMAIN trace
                  /\ trace[i + 1] = Note(DirectConnectFailed, cur.name)
                  /\ trace[i + 2] = Call("proxyNodeFetch", proxy, cur.name)
             /\ PassErr(proxy) # "skipped"
             /\ cur.name \in DOMAIN failedNodeList
             /\ failedNodeList[cur.name] =
                  IF PassErr(proxy) = "nil" THEN DirectConnectFailed ELSE ProxyConnectFailed

\* C14 witness: in mode Direct the last iteration visited a node that is not
\* a Fargate node and reports an external IP only.
C14_Witness ==
  /\ cur # NoNode
  /\ NoInternalIP(cur)
  /\ cur.addresses # <<>>
  /\ config.nodeRetrievalMethod = direct
  /\ ~isFargateNode(cur)
  /\ failedNodeList[cur.name] = DirectConnectFailed

\* ensureNodeSource has returned and the agent is between cycles or in one.
InCycles == pc \in {"idle", "list", "fetch"}

\* C15: no step of a fetch cycle (its start, a listing attempt, a loop
\* iteration whatever the node's outcome, its return) changes the Direct mask,
\* the Proxy mask or the connection mode: they are as ensureNodeSource left
\* them, and mode Direct stays Direct after a node's direct failure.
C15_CyclesLeaveMasksAndMode ==
  [][ InCycles
      => /\ config'.DirectEndpointMask = config.DirectEndpointMask
         /\ config'.ProxyEndpointMask = config.ProxyEndpointMask
         /\ config'.nodeRetrievalMethod = config.nodeRetrievalMethod
         /\ InCycles' ]_vars

\* C15 witness: a cycle over two nodes returned in mode Direct after the
\* direct pass of both nodes had failed.
C15_Witness ==
  /\ CycleReturned
  /\ ret.hasReport
  /\ config.nodeRetrievalMethod = direct
  /\ Len(listed) = 2
  /\ \A i \in DOMAIN listed : PassFailed(outcomes[listed[i]].direct)

\* The three notes an iteration can record for the node it visits.
NoteTexts == {ProviderIDMissing, DirectConnectFailed, ProxyConnectFailed}

\* C16: the failure map holds one entry per node name, for nodes of the list
\* only; whenever the proxy fetch of a node fails, "proxy connect failed" is
\* the last note of its iteration, recorded after any missing-provider-ID and
\* direct-failure note, and is the node's entry in the map and in the
\* returned report.
C16_ProxyFailureIsFinalEntry ==
  /\ DOMAIN failedNodeList \subseteq { listed[i] : i \in DOMAIN listed }
  /\ \A name \in DOMAIN failedNodeList : failedNodeList[name] \in NoteTexts
  /\ ( cur # NoNode /\ PassFailed(PassErr(proxy)) )
       => /\ failedNodeList[cur.name] = ProxyConnectFailed
          /\ trace[Len(trace)] = Note(ProxyConnectFailed, cur.name)
          /\ \A k \in 1..(Len(trace) - 1) :
               trace[k] # Note(ProxyConnectFailed, cur.name)
  /\ ( CycleReturned /\ ret.hasReport )
       => /\ ret.report = failedNodeList
          /\ \A name \in DOMAIN outcomes :
               PassFailed(outcomes[name].proxy)
               => /\ name \in DOMAIN ret.report
                  /\ ret.report[name] = ProxyConnectFailed

\* C16 witness: in mode Direct a node without provider ID had its direct
\* request and then its proxy request fail: the three notes were recorded in
\* turn and the entry is "proxy connect failed".
C16_Witness ==
  /\ cur # NoNode
  /\ config.nodeRetrievalMethod = direct
  /\ PassErr(direct) = "request failed"
  /\ PassErr(proxy) = "request failed"
  /\ \E i, j \in DOMAIN trace :
       /\ trace[1] = Note(ProviderIDMissing, cur.name)
       /\ 1 < i /\ i < j
       /\ trace[i] = Note(DirectConnectFailed, cur.name)
       /\ trace[j] = Note(ProxyConnectFailed, cur.name)
  /\ failedNodeList[cur.name] = ProxyConnectFailed

\* The answers the transport gave in the pass through via of the last
\* iteration: a request failed if the trace holds it as failed.
Answered(via) ==
  [ e \in Endpoints |->
      ~\E k \in DOMAIN trace :
         /\ trace[k].op = "request" /\ trace[k].via = via
         /\ trace[k].endpoint = e /\ ~trace[k].ok ]

\* The node of the last iteration, had it a provider ID.
WithProviderID == [ cur EXCEPT !.providerID = "aws:///" \o cur.name ]

\* The fetch of node name succeeded: its direct pass, or its proxy pass (run
\* for it at once or as fallback), returned no error.
FetchSucceeded(name) ==
  outcomes[name].direct = "nil" \/ outcomes[name].proxy = "nil"

\* C17 as stated: a node with an empty provider ID gets a failure entry, is
\* fetched like any other node, and if its fetch then succeeds the
\* missing-provider-ID entry is the node's entry in the returned report.
C17_ProviderIDEntryKeptWheneverFetchSucceeds ==
  /\ ( cur # NoNode /\ cur.providerID = "" )
       => /\ trace # <<>>
          /\ trace[1] = Note(ProviderIDMissing, cur.name)
          /\ FetchAttempted(cur.name)
          /\ cur.name \in DOMAIN failedNodeList
  /\ ( CycleReturned /\ ret.hasReport )
       => \A name \in DOMAIN outcomes :
            ( outcomes[name].noID /\ FetchSucceeded(name) )
            => /\ name \in DOMAIN ret.report
               /\ ret.report[name] = ProviderIDMissing

\* C17 amended: for a node with an empty provider ID the iteration first
\* records the missing-provider-ID entry, then proceeds exactly as for the
\* same node with a provider ID under the same answers of the transport (same
\* calls, same requests, same notes, same outcome of each pass). If its fetch
\* then succeeds without any pass failing (direct at once, or proxy without a
\* direct failure before), that entry is the node's entry in the map and in
\* the returned report; if its direct pass fails and its proxy fallback
\* succeeds, the node's entry is "direct connect failed (will attempt
\* proxy)", which replaced the missing-provider-ID entry.
C17_MissingProviderIDIsNotFatal ==
  /\ ( cur # NoNode /\ cur.providerID = "" )
       => LET r == FetchNode(config, WithProviderID, EmptyMap,
                             Answered(direct), Answered(proxy))
          IN /\ trace = << Note(ProviderIDMissing, cur.name) >> \o r.events
             /\ PassErr(direct) = r.direct
             /\ PassErr(proxy) = r.proxy
             /\ FetchAttempted(cur.name)
             /\ cur.name \in DOMAIN failedNodeList
             /\ ( ~PassFailed(PassErr(direct)) /\ ~PassFailed(PassErr(proxy)) )
                  => failedNodeList[cur.name] = ProviderIDMissing
  /\ ( cur # NoNode /\ cur.providerID # "" )
       => \A k \in DOMAIN trace : trace[k] # Note(ProviderIDMissing, cur.name)
  /\ ( CycleReturned /\ ret.hasReport )
       => \A name \in DOMAIN outcomes :
            ( /\ outcomes[name].noID
              /\ ~PassFailed(outcomes[name].direct)
              /\ ~PassFailed(outcomes[name].proxy) )
            => /\ name \in DOMAIN ret.report
               /\ ret.report[name] = ProviderIDMissing
  /\ ( CycleReturned /\ ret.hasReport )
       => \A name \in DOMAIN outcomes :
            ( outcomes[name].noID /\ RecoveredByProxy(name) )
            => /\ name \in DOMAIN ret.report
               /\ ret.report[name] = DirectConnectFailed

\* C17 witness: a cycle returned a report whose entry for a node without
\* provider ID is the missing-provider-ID note, the node's direct pass having
\* fetched its endpoints.
C17_Witness ==
  /\ CycleReturned
  /\ ret.hasReport
  /\ cur.providerID = ""
  /\ PassErr(direct) = "nil"
  /\ PassRequests(direct) # <<>>
  /\ ret.report[cur.name] = ProviderIDMissing

\* C18: in a session without container-stats collection, whose masks start
\* empty, ensureNodeSource issues no probe of Container (no POST probe) in
\* either of its two probe runs and Container is in neither mask; no request
\* of a cycle goes to Container, whatever the mode and the pass.
C18_ContainerNeverProbedNorFetchedUnlessConfigured ==
  ~config.RetrieveStatsContainer
  => /\ \A k \in DOMAIN probeLog :
          /\ probeLog[k].endpoint # NodeContainerEndpoint
          /\ probeLog[k].method # "POST"
     /\ \A t \in {ensured.directTest, ensured.proxyTest} :
          NodeContainerEndpoint \notin DOMAIN t.res
     /\ ~Available(config.DirectEndpointMask, NodeContainerEndpoint)
     /\ ~Available(config.ProxyEndpointMask, NodeContainerEndpoint)
     /\ \A k \in DOMAIN trace :
          trace[k].op = "request" => trace[k].endpoint # NodeContainerEndpoint

\* C18 witness: without container-stats collection, both probe runs completed
\* and a proxy pass of a cycle fetched StatsSummary and CAdvisor, and nothing
\* else.
C18_Witness ==
  /\ ~config.RetrieveStatsContainer
  /\ ensured.directTest.ran /\ NoTransportError(ensured.directTest)
  /\ ensured.proxyTest.ran /\ NoTransportError(ensured.proxyTest)
  /\ config.nodeRetrievalMethod = proxy
  /\ PassComplete(proxy)
  /\ PassRequests(proxy) =
       << Request(proxy, cur.name, NodeStatsSummaryEndpoint, TRUE),
          Request(proxy, cur.name, NodeCadvisorEndpoint, TRUE) >>

\* C19: in a session whose masks start empty and in which ensureNodeSource
\* selected mode Direct, the Proxy probe never ran and the Proxy mask is still
\* empty; every proxy fetch of a cycle (for a Fargate node, or after a direct
\* failure) is called, issues no request and returns no error.
C19_ProxyFetchInDirectSessionFetchesNothing ==
  config.nodeRetrievalMethod = direct
  => /\ ~ensured.proxyTest.ran
     /\ \A k \in DOMAIN probeLog : probeLog[k].via # proxy
     /\ config.ProxyEndpointMask = {}
     /\ ( cur # NoNode /\ ( isFargateNode(cur) \/ PassFailed(PassErr(direct)) ) )
          => /\ \E k \in DOMAIN trace : trace[k] = Call("proxyNodeFetch", proxy, cur.name)
             /\ PassRequests(proxy) = <<>>
             /\ PassErr(proxy) = "nil"
     /\ \A k \in DOMAIN trace : trace[k].op = "request" => trace[k].via = direct
     /\ \A name \in DOMAIN outcomes : outcomes[name].proxy \in {"skipped", "nil"}

\* C19 witness: a cycle of a Direct session over two nodes, the first a
\* Fargate node and the second with a failed direct request: both were
\* proxy-fetched without error and without any request.
C19_Witness ==
  /\ config.nodeRetrievalMethod = direct
  /\ CycleReturned
  /\ Len(listed) = 2
  /\ outcomes[listed[1]].direct = "skipped"
  /\ outcomes[listed[1]].proxy = "nil"
  /\ cur.name = listed[2]
  /\ PassErr(direct) = "request failed"
  /\ PassErr(proxy) = "nil"
  /\ PassRequests(proxy) = <<>>

\* ensureNodeSource is running or has just returned, with the ready nodes its
\* listing gave.
EnsuringWithNodes ==
  /\ nodes # <<>>
  /\ \/ pc \in {"testDirect", "testProxy"}
     \/ pc = "idle" /\ ret.err = "pending"

\* C20: when the first ready node has no internal-IP address,
\* ensureNodeSource returns an address error without running any probe and
\* without deciding on direct connection, whether or not force-proxy is set
\* or a Fargate node is present; mode, both masks and RetrieveNodeSummaries
\* are as on entry. No probe is ever reached with such a first node.
C20_AddressErrorBeforeAnyProbe ==
  ( EnsuringWithNodes /\ NoInternalIP(nodes[1]) )
  => /\ pc = "idle"
     /\ ensured.err = "error retrieving node addresses"
     /\ ensured.allowDirect = "not called"
     /\ probeLog = <<>>
     /\ ~ensured.directTest.ran /\ ~ensured.proxyTest.ran
     /\ AsOnEntry
     /\ config.DirectEndpointMask = {} /\ config.ProxyEndpointMask = {}
     /\ ~CollectionEnabled

\* C20 witness: ensureNodeSource returned the address error with force-proxy
\* set, the first ready node reporting an external IP only and the second
\* being a Fargate node.
C20_Witness ==
  /\ EnsuringWithNodes
  /\ pc = "idle"
  /\ config.ForceKubeProxy
  /\ Len(nodes) = 2
  /\ NoInternalIP(nodes[1])
  /\ isFargateNode(nodes[2])
  /\ ensured.err = "error retrieving node addresses"
====
